---- MODULE Spec2Model ----
(***************************************************************************)
(* rwrap.py: a wrapper that asks a Proxmox VE cluster for the SPICE        *)
(* parameters of one VM, writes them to a remote-viewer connection file    *)
(* and starts remote-viewer on it.                                         *)
(*                                                                         *)
(* A Python string is a sequence of one-character strings, so that         *)
(* concatenation, str.split and the parsing of the connection file are     *)
(* computed, not assumed.  Python's None is the one-element sequence       *)
(* <<"None">>, which no sequence of single characters equals.              *)
(***************************************************************************)
EXTENDS Integers, Sequences, FiniteSets, TLC

VARIABLES
    arguments,            \* main: the object parse_arguments returned
    umask,                \* the process's file mode creation mask (set of masked bits)
    resources_response,   \* the cluster's answer to GET cluster/resources
    pc,                   \* main's position
    probe,                \* outcome of the HTTPS probe of determine_port
    pve_port,             \* main: pve_port
    pve_api_url,          \* main: pve_api_url
    ticket_response,      \* get_pve_cookies: pve_ticket_response
    pve_cookie,           \* main: pve_cookie
    pve_header,           \* main: pve_header
    vminfo,               \* main: vminfo
    pve_spice,            \* main: pve_spice (the spiceproxy response)
    json_data,            \* main: the seven arguments taken from json_data
    conn_param,           \* generate_rc_file: conn_param
    connection_file_name, \* generate_rc_file: the chosen path / main: connection_file_name
    disk,                 \* the file system: path -> [content, mode]
    sent,                 \* every HTTP request sent so far, in order
    viewer,               \* the remote-viewer child process
    printed,              \* what main printed
    raised,               \* the exception that left main, or None
    exit_status           \* the process's exit status, or None while it runs

vars == <<arguments, umask, resources_response, pc, probe, pve_port, pve_api_url,
          ticket_response, pve_cookie, pve_header, vminfo, pve_spice, json_data,
          conn_param, connection_file_name, disk, sent, viewer, printed, raised,
          exit_status>>

-----------------------------------------------------------------------------
(* Bounds of the model *)

\* longest cluster inventory of the locator specification
MaxInv == 3
\* longest value of a connection-file field in the descriptor specification
MaxLen == 2

-----------------------------------------------------------------------------
(* Python values *)

None == <<"None">>

\* mutant: only None counts as missing, '' does not
Falsy_mut(x) == x = None

\* truthiness of a str-or-None value: `not x` holds for None and for ''
Falsy(x) == x = None \/ x = <<>>

\* s.split(sep) for a one-character separator
RECURSIVE split(_, _)
split(s, sep) ==
    IF \A i \in 1..Len(s) : s[i] # sep
    THEN <<s>>
    ELSE LET i == CHOOSE k \in 1..Len(s) :
                      s[k] = sep /\ \A j \in 1..(k - 1) : s[j] # sep
         IN  <<SubSeq(s, 1, i - 1)>> \o split(SubSeq(s, i + 1, Len(s)), sep)

\* ''.join(parts)
RECURSIVE concat(_)
concat(parts) ==
    IF parts = <<>> THEN <<>> ELSE Head(parts) \o concat(Tail(parts))

Digit(d) == CASE d = 0 -> "0" [] d = 1 -> "1" [] d = 2 -> "2" [] d = 3 -> "3"
              [] d = 4 -> "4" [] d = 5 -> "5" [] d = 6 -> "6" [] d = 7 -> "7"
              [] d = 8 -> "8" [] d = 9 -> "9"

\* str(n) for an int n >= 0
RECURSIVE int_str(_)
int_str(n) == IF n < 10 THEN <<Digit(n)>> ELSE int_str(n \div 10) \o <<Digit(n % 10)>>

\* str(x): a str is returned as it is, an int in decimal
str(x) == IF "int" \in DOMAIN x THEN int_str(x.int) ELSE x.str

-----------------------------------------------------------------------------
(* String literals of rwrap.py *)

Https == <<"h", "t", "t", "p", "s", ":", "/", "/">>
Port443 == <<"4", "4", "3">>
Port8006 == <<"8", "0", "0", "6">>
Colon == <<":">>
Slash == <<"/">>
ApiPath == <<"/", "a", "p", "i", "2", "/", "j", "s", "o", "n", "/">>
TicketPath == <<"a", "c", "c", "e", "s", "s", "/", "t", "i", "c", "k", "e", "t">>
ResourcesPath == <<"c", "l", "u", "s", "t", "e", "r", "/", "r", "e", "s", "o", "u", "r", "c", "e", "s">>
NodesPath == <<"n", "o", "d", "e", "s", "/">>
SpiceProxyPath == <<"/", "s", "p", "i", "c", "e", "p", "r", "o", "x", "y">>
Lxc == <<"l", "x", "c">>
Qemu == <<"q", "e", "m", "u">>
Storage == <<"s", "t", "o", "r", "a", "g", "e">>
NL == "\n"
ConfSuffix == <<".", "c", "o", "n", "f">>
SectionLine == <<"[", "v", "i", "r", "t", "-", "v", "i", "e", "w", "e", "r", "]">>
TypeLine == <<"t", "y", "p", "e", "=", "s", "p", "i", "c", "e">>
FullscreenLine == <<"t", "o", "g", "g", "l", "e", "-", "f", "u", "l", "l", "s", "c", "r", "e", "e", "n", "=", "S", "h", "i", "f", "t", "+", "F", "1", "1">>
ReleaseCursorLine == <<"r", "e", "l", "e", "a", "s", "e", "-", "c", "u", "r", "s", "o", "r", "=", "C", "t", "r", "l", "+", "A", "l", "t", "+", "R">>
DeleteLine == <<"d", "e", "l", "e", "t", "e", "-", "t", "h", "i", "s", "-", "f", "i", "l", "e", "=", "1">>
TitleKey == <<"t", "i", "t", "l", "e", "=">>
TlsPortKey == <<"t", "l", "s", "-", "p", "o", "r", "t", "=">>
HostKey == <<"h", "o", "s", "t", "=">>
CaKey == <<"c", "a", "=">>
HostSubjectKey == <<"h", "o", "s", "t", "-", "s", "u", "b", "j", "e", "c", "t", "=">>
PasswordKey == <<"p", "a", "s", "s", "w", "o", "r", "d", "=">>
ProxyKey == <<"p", "r", "o", "x", "y", "=">>
RemoteViewer == <<"r", "e", "m", "o", "t", "e", "-", "v", "i", "e", "w", "e", "r">>
ViewerWarning == "Error: remove-viewer subprocess terminated"

-----------------------------------------------------------------------------
(* The requests library *)

\* Response.raise_for_status raises HTTPError for a 4xx or 5xx status
raises_for_status(status) == 400 <= status /\ status < 600

\* mutant: the status is not looked at
ok_mut(status) == TRUE

\* Response.ok: raise_for_status does not raise
ok(status) == ~raises_for_status(status)

\* subclasses of requests.exceptions.ConnectionError and requests.exceptions.Timeout
ConnectFailures == {"ConnectionError", "SSLError", "ConnectTimeout"}

\* the exceptions the except clause of determine_port catches
caught_by_determine_port(exc) == exc \in ConnectFailures

\* HTTP statuses a server answers with
Statuses == {200, 404, 500}

\* what the HTTPS probe can meet: no connection, or a response with a status
ProbeOutcomes ==
    {[connected |-> FALSE, exc |-> e, status |-> 0] : e \in ConnectFailures}
    \cup {[connected |-> TRUE, exc |-> "", status |-> st] : st \in Statuses}

NoProbe == [connected |-> FALSE, exc |-> "", status |-> 0]

request(method, url, cookies, headers) ==
    [method |-> method, url |-> url, cookies |-> cookies, headers |-> headers]

\* an empty dict
EmptyDict == <<>>

\* a response: its status and its body (not JSON, JSON without 'data', or a 'data' value)
Response(status, body, data) == [status |-> status, body |-> body, data |-> data]

NoResponse == Response(0, "none", EmptyDict)

-----------------------------------------------------------------------------
(* Inputs *)

Hostnames == {<<"h">>}
VmNames == {<<"a">>, <<"b">>}
VmIds == {<<"1">>, <<"2">>}

Arguments(vmname, vmid, fqdn) ==
    [fqdn |-> fqdn, username |-> <<"u">>, password |-> <<"p">>,
     vmname |-> vmname, vmid |-> vmid]

\* parse_arguments: exactly one of -n and -i is given, each with any string
ParsedArguments ==
    {Arguments(n, None, h) : n \in {<<>>, <<"a">>}, h \in Hostnames}
    \cup {Arguments(None, i, h) : i \in {<<>>, <<"1">>}, h \in Hostnames}

Item(type, bare, name, node) ==
    [id |-> type \o Slash \o bare, type |-> type, name |-> name, node |-> node]

\* a vmid is unique in the cluster: it names the node its instance runs on
NodeOf(bare) == IF bare = <<"1">> THEN <<"n">> ELSE <<"m">>

Items == {Item(t, b, n, NodeOf(b)) : t \in {Lxc, Qemu, Storage}, b \in VmIds, n \in VmNames}

\* the inventories of the runs of main
MainInventories ==
    { <<>>,
      <<Item(Qemu, <<"1">>, <<"a">>, <<"n">>)>>,
      <<Item(Qemu, <<"2">>, <<"b">>, <<"n">>), Item(Lxc, <<"1">>, <<"b">>, <<"m">>)>>,
      <<Item(Lxc, <<"1">>, <<"a">>, <<"m">>), Item(Qemu, <<"1">>, <<"a">>, <<"n">>)>>,
      <<Item(Storage, <<"1">>, <<"a">>, <<"n">>)>> }

MainResourcesResponses ==
    {Response(200, "data", inv) : inv \in MainInventories}
    \cup {Response(200, "notjson", <<>>)}

\* file mode bits
Mode666 == {"ur", "uw", "gr", "gw", "or", "ow"}
Mode600 == {"ur", "uw"}
\* umask 022 and umask 077
Umasks == {{"gw", "ow"}, {"gr", "gw", "or", "ow"}}

\* nothing has run yet
Fresh ==
    /\ probe = NoProbe
    /\ ticket_response = NoResponse
    /\ vminfo = EmptyDict
    /\ pve_spice = NoResponse
    /\ conn_param = <<>>
    /\ connection_file_name = None
    /\ disk = EmptyDict
    /\ sent = <<>>
    /\ viewer = [started |-> FALSE, argv |-> <<>>, returncode |-> 0]
    /\ printed = <<>>
    /\ raised = "None"
    /\ exit_status = -1

\* main starts: parse_arguments has returned
Init ==
    /\ arguments \in ParsedArguments
    /\ umask \in Umasks
    /\ resources_response \in MainResourcesResponses
    /\ pc = "determine_port"
    /\ pve_port = None
    /\ pve_api_url = None
    /\ pve_cookie = EmptyDict
    /\ pve_header = EmptyDict
    /\ json_data = EmptyDict
    /\ Fresh

-----------------------------------------------------------------------------
(* main *)

\* mutant: the exception is reported but the process exits with status 0
Raise_mut(exc) ==
    /\ pc' = "exited"
    /\ raised' = exc
    /\ exit_status' = 0

\* an exception nothing catches leaves main: the interpreter prints the
\* traceback and exits with status 1
Raise(exc) ==
    /\ pc' = "exited"
    /\ raised' = exc
    /\ exit_status' = 1

\* lines 45-49: pve_port = determine_port(arguments.fqdn), then pve_api_url
determine_port ==
    /\ pc = "determine_port"
    /\ \E outcome \in ProbeOutcomes :
        /\ probe' = outcome
        /\ sent' = Append(sent, request("GET", Https \o arguments.fqdn \o Colon \o Port443,
                                        EmptyDict, EmptyDict))
        /\ IF ~outcome.connected
           THEN IF caught_by_determine_port(outcome.exc)
                THEN /\ pve_port' = Port8006
                     /\ pve_api_url' = Https \o arguments.fqdn \o Colon \o Port8006 \o ApiPath
                     /\ pc' = "get_pve_cookies"
                     /\ UNCHANGED <<raised, exit_status>>
                ELSE /\ Raise(outcome.exc)
                     /\ UNCHANGED <<pve_port, pve_api_url>>
           ELSE IF raises_for_status(outcome.status)
                THEN /\ Raise("HTTPError")
                     /\ UNCHANGED <<pve_port, pve_api_url>>
                ELSE /\ pve_port' = Port443
                     /\ pve_api_url' = Https \o arguments.fqdn \o Colon \o Port443 \o ApiPath
                     /\ pc' = "get_pve_cookies"
                     /\ UNCHANGED <<raised, exit_status>>
    /\ UNCHANGED <<arguments, umask, resources_response, ticket_response, pve_cookie, pve_header,
                   vminfo, pve_spice, json_data, conn_param, connection_file_name, disk,
                   viewer, printed>>

\* the 'data' of a ticket response: any of the two fields may be missing
TicketData ==
    {[k \in keys |-> IF k = "ticket" THEN t ELSE <<"C">>] :
        keys \in SUBSET {"ticket", "CSRFPreventionToken"}, t \in {<<"T">>, <<"U">>}}

TicketResponses ==
    {Response(st, "notjson", EmptyDict) : st \in Statuses}
    \cup {Response(st, "nodata", EmptyDict) : st \in Statuses}
    \cup {Response(st, "data", d) : st \in Statuses, d \in TicketData}

\* lines 52-54: (pve_cookie, pve_header) = get_pve_cookies(...)
get_pve_cookies ==
    /\ pc = "get_pve_cookies"
    /\ \E response \in TicketResponses :
        /\ ticket_response' = response
        /\ sent' = Append(sent, request("POST", pve_api_url \o TicketPath,
                                        EmptyDict, EmptyDict))
        /\ IF ~ok(response.status)
           THEN /\ Raise("ConnectionError")
                /\ UNCHANGED <<pve_cookie, pve_header>>
           ELSE IF response.body = "notjson"
           THEN /\ Raise("JSONDecodeError")
                /\ UNCHANGED <<pve_cookie, pve_header>>
           ELSE IF response.body = "nodata" \/ "ticket" \notin DOMAIN response.data
           THEN /\ Raise("KeyError")
                /\ UNCHANGED <<pve_cookie, pve_header>>
           ELSE IF "CSRFPreventionToken" \notin DOMAIN response.data
           THEN /\ Raise("KeyError")
                /\ UNCHANGED <<pve_cookie, pve_header>>
           ELSE /\ pve_cookie' = [PVEAuthCookie |-> response.data["ticket"]]
                /\ pve_header' =
                       [CSRFPreventionToken |-> response.data["CSRFPreventionToken"]]
                /\ pc' = "get_node_info"
                /\ UNCHANGED <<raised, exit_status>>
    /\ UNCHANGED <<arguments, umask, resources_response, probe, pve_port, pve_api_url, vminfo,
                   pve_spice, json_data, conn_param, connection_file_name, disk, viewer,
                   printed>>

\* mutant: the scan keeps the first match
RECURSIVE scan_mut(_, _, _, _)
scan_mut(pve_resource, vmname, vmid, info) ==
    IF pve_resource = <<>>
    THEN info
    ELSE LET item == Head(pve_resource)
             true_id == split(item.id, "/")[2]
             found == /\ (item.type = Lxc \/ item.type = Qemu)
                      /\ (item.name = vmname \/ true_id = vmid)
         IN  scan_mut(Tail(pve_resource), vmname, vmid,
                      IF found /\ DOMAIN info = {}
                      THEN [name |-> item.name, type |-> item.type,
                            id |-> true_id, node |-> item.node]
                      ELSE info)

\* lines 225-236: the scan of the inventory; the id of an item is '<kind>/<vmid>'
RECURSIVE scan(_, _, _, _)
scan(pve_resource, vmname, vmid, info) ==
    IF pve_resource = <<>>
    THEN info
    ELSE LET item == Head(pve_resource)
             true_id == split(item.id, "/")[2]
             found == /\ (item.type = Lxc \/ item.type = Qemu)
                      /\ (item.name = vmname \/ true_id = vmid)
         IN  scan(Tail(pve_resource), vmname, vmid,
                  IF found
                  THEN [name |-> item.name, type |-> item.type,
                        id |-> true_id, node |-> item.node]
                  ELSE info)

\* lines 57-60: vminfo = get_node_info(...)
get_node_info ==
    /\ pc = "get_node_info"
    /\ IF Falsy(arguments.vmname) /\ Falsy(arguments.vmid)
       THEN /\ Raise("ValueError")
            /\ UNCHANGED <<vminfo, sent>>
       ELSE /\ sent' = Append(sent, request("GET", pve_api_url \o ResourcesPath,
                                            pve_cookie, EmptyDict))
            /\ IF resources_response.body = "notjson"
               THEN /\ Raise("JSONDecodeError")
                    /\ UNCHANGED vminfo
               ELSE IF resources_response.body = "nodata"
               THEN /\ Raise("KeyError")
                    /\ UNCHANGED vminfo
               ELSE LET info == scan(resources_response.data, arguments.vmname,
                                     arguments.vmid, EmptyDict)
                    IN  IF DOMAIN info = {}
                        THEN /\ Raise("BaseException")
                             /\ UNCHANGED vminfo
                        ELSE /\ vminfo' = info
                             /\ pc' = "get_spice_info"
                             /\ UNCHANGED <<raised, exit_status>>
    /\ UNCHANGED <<arguments, umask, resources_response, probe, pve_port, pve_api_url,
                   ticket_response, pve_cookie, pve_header, pve_spice, json_data,
                   conn_param, connection_file_name, disk, viewer, printed>>

SpiceKeys == {"title", "host", "ca", "tls-port", "password", "proxy", "host-subject"}

\* the value the cluster gives a field: 'tls-port' is a JSON number or a string
SpiceValues(k) ==
    CASE k = "title" -> {[str |-> <<"t">>]}
      [] k = "host" -> {[str |-> <<"h">>]}
      [] k = "ca" -> {[str |-> <<"c">>]}
      [] k = "tls-port" -> {[int |-> 61000], [str |-> <<"6", "1">>]}
      [] k = "password" -> {[str |-> <<"s">>]}
      [] k = "proxy" -> {[str |-> <<"x">>]}
      [] k = "host-subject" -> {[str |-> <<"o">>]}

\* the 'data' of a spiceproxy response: any of the seven fields may be missing
SpiceData ==
    {[k \in keys |-> IF k = "tls-port" THEN port ELSE CHOOSE v \in SpiceValues(k) : TRUE] :
        keys \in SUBSET SpiceKeys, port \in SpiceValues("tls-port")}

SpiceResponses ==
    {Response(st, "notjson", EmptyDict) : st \in Statuses}
    \cup {Response(st, "nodata", EmptyDict) : st \in Statuses}
    \cup {Response(st, "data", d) : st \in Statuses, d \in SpiceData}

\* mutant: the kind and the id change places
pve_spice_url_mut(api_url, info) ==
    api_url \o NodesPath \o info["node"] \o Slash \o info["id"] \o Slash \o info["type"]
            \o SpiceProxyPath

\* lines 63-65: pve_spice_url
pve_spice_url(api_url, info) ==
    api_url \o NodesPath \o info["node"] \o Slash \o info["type"] \o Slash \o info["id"]
            \o SpiceProxyPath

\* lines 67-69: pve_spice = get_spice_info(...)
get_spice_info ==
    /\ pc = "get_spice_info"
    /\ \E response \in SpiceResponses :
        /\ sent' = Append(sent, request("POST", pve_spice_url(pve_api_url, vminfo),
                                        pve_cookie, pve_header))
        /\ pve_spice' = response
        /\ IF ~ok(response.status)
           THEN Raise("ConnectionError")
           ELSE /\ pc' = "json_data"
                /\ UNCHANGED <<raised, exit_status>>
    /\ UNCHANGED <<arguments, umask, resources_response, probe, pve_port, pve_api_url,
                   ticket_response, pve_cookie, pve_header, vminfo, json_data, conn_param,
                   connection_file_name, disk, viewer, printed>>

\* lines 72-82: json_data = pve_spice.json()['data'] and the seven json_data[...]
\* that are the arguments of generate_rc_file (DEBUG is False)
\* mutant: a missing field reads as the empty string (dict.get(key, ''))
read_json_data_mut(data) ==
    [raised |-> "None",
     args |-> [k \in SpiceKeys |-> IF k \in DOMAIN data THEN data[k] ELSE [str |-> <<>>]]]

\* lines 79-82: json_data['title'], ..., json_data['host-subject']: a missing key
\* raises KeyError, nothing stands in for it
read_json_data(data) ==
    IF \E k \in SpiceKeys : k \notin DOMAIN data
    THEN [raised |-> "KeyError", args |-> EmptyDict]
    ELSE [raised |-> "None", args |-> [k \in SpiceKeys |-> data[k]]]

main_json_data ==
    /\ pc = "json_data"
    /\ IF pve_spice.body = "notjson"
       THEN /\ Raise("JSONDecodeError")
            /\ UNCHANGED json_data
       ELSE IF pve_spice.body = "nodata"
       THEN /\ Raise("KeyError")
            /\ UNCHANGED json_data
       ELSE LET read == read_json_data(pve_spice.data)
            IN  IF read.raised # "None"
                THEN /\ Raise(read.raised)
                     /\ UNCHANGED json_data
                ELSE /\ json_data' = read.args
                     /\ pc' = "generate_rc_file"
                     /\ UNCHANGED <<raised, exit_status>>
    /\ UNCHANGED <<arguments, umask, resources_response, probe, pve_port, pve_api_url,
                   ticket_response, pve_cookie, pve_header, vminfo, pve_spice, conn_param,
                   connection_file_name, disk, sent, viewer, printed>>

\* mutant: the host line carries the certificate and the ca line the host
conn_param_lines_mut(title, host, cert, port, password, proxy, subject) ==
    << SectionLine \o <<NL>>,
       TypeLine \o <<NL>>,
       FullscreenLine \o <<NL>>,
       TitleKey \o title.str \o <<NL>>,
       TlsPortKey \o str(port) \o <<NL>>,
       HostKey \o cert.str \o <<NL>>,
       CaKey \o host.str \o <<NL>>,
       HostSubjectKey \o subject.str \o <<NL>>,
       PasswordKey \o password.str \o <<NL>>,
       ProxyKey \o proxy.str \o <<NL>>,
       ReleaseCursorLine \o <<NL>>,
       DeleteLine \o <<NL>> >>

\* lines 270-285: conn_param
conn_param_lines(title, host, cert, port, password, proxy, subject) ==
    << SectionLine \o <<NL>>,
       TypeLine \o <<NL>>,
       FullscreenLine \o <<NL>>,
       TitleKey \o title.str \o <<NL>>,
       TlsPortKey \o str(port) \o <<NL>>,
       HostKey \o host.str \o <<NL>>,
       CaKey \o cert.str \o <<NL>>,
       HostSubjectKey \o subject.str \o <<NL>>,
       PasswordKey \o password.str \o <<NL>>,
       ProxyKey \o proxy.str \o <<NL>>,
       ReleaseCursorLine \o <<NL>>,
       DeleteLine \o <<NL>> >>

\* os.path.expanduser("~")
Home == <<"/", "r">>

\* the random part of a name tempfile chooses
TempNames == {<<"t", "m", "p", "0">>, <<"t", "m", "p", "1">>}

\* the file system with `path` holding `file`
with_file(fs, path, file) ==
    [p \in DOMAIN fs \cup {path} |-> IF p = path THEN file ELSE fs[p]]

\* the file system without `path`
without_file(fs, path) == [p \in DOMAIN fs \ {path} |-> fs[p]]

\* the mode of a file that open(path, 'w') creates
created_mode(mask) == Mode666 \ mask

\* open(path, 'w'), writelines(lines), close: an existing file is truncated and
\* keeps its mode, a missing one is created
open_write(fs, path, lines, mask) ==
    with_file(fs, path,
              [content |-> concat(lines),
               mode |-> IF path \in DOMAIN fs THEN fs[path].mode ELSE created_mode(mask)])

\* lines 270-290: conn_param is built and tempfile.NamedTemporaryFile creates a
\* new file, mode 0600, in the home directory
generate_rc_file_mktemp ==
    /\ pc = "generate_rc_file"
    /\ conn_param' = conn_param_lines(json_data["title"], json_data["host"],
                                      json_data["ca"], json_data["tls-port"],
                                      json_data["password"], json_data["proxy"],
                                      json_data["host-subject"])
    /\ \E rnd \in TempNames :
        LET path == Home \o Slash \o rnd \o ConfSuffix
        IN  /\ path \notin DOMAIN disk
            /\ disk' = with_file(disk, path, [content |-> <<>>, mode |-> Mode600])
            /\ connection_file_name' = path
    /\ pc' = "tempfile_close"
    /\ UNCHANGED <<arguments, umask, resources_response, probe, pve_port, pve_api_url,
                   ticket_response, pve_cookie, pve_header, vminfo, pve_spice, json_data,
                   sent, viewer, printed, raised, exit_status>>

\* lines 288-290: only .name of the temporary file object is kept; the object is
\* released, which closes it and deletes its file
generate_rc_file_unlink ==
    /\ pc = "tempfile_close"
    /\ disk' = without_file(disk, connection_file_name)
    /\ pc' = "open_write"
    /\ UNCHANGED <<arguments, umask, resources_response, probe, pve_port, pve_api_url,
                   ticket_response, pve_cookie, pve_header, vminfo, pve_spice, json_data,
                   conn_param, connection_file_name, sent, viewer, printed, raised,
                   exit_status>>

\* lines 288-294: open(name, 'w'), writelines, the with block closes the file,
\* and the name is returned to main
generate_rc_file_write ==
    /\ pc = "open_write"
    /\ disk' = open_write(disk, connection_file_name, conn_param, umask)
    /\ pc' = "run_viewer"
    /\ UNCHANGED <<arguments, umask, resources_response, probe, pve_port, pve_api_url,
                   ticket_response, pve_cookie, pve_header, vminfo, pve_spice, json_data,
                   conn_param, connection_file_name, sent, viewer, printed, raised,
                   exit_status>>

\* return codes of the child: 0, failures, and a death by signal
ReturnCodes == {0, 1, 255, -9}

\* lines 85-89: subprocess.run starts remote-viewer on the connection file, or
\* fails to start it (remote-viewer is not installed)
viewer_start ==
    /\ pc = "run_viewer"
    /\ \/ /\ viewer' = [started |-> TRUE, argv |-> <<RemoteViewer, connection_file_name>>,
                        returncode |-> 0]
          /\ pc' = "viewer_wait"
          /\ UNCHANGED <<raised, exit_status>>
       \/ /\ Raise("FileNotFoundError")
          /\ UNCHANGED viewer
    /\ UNCHANGED <<arguments, umask, resources_response, probe, pve_port, pve_api_url,
                   ticket_response, pve_cookie, pve_header, vminfo, pve_spice, json_data,
                   conn_param, connection_file_name, disk, sent, printed>>

\* CompletedProcess.check_returncode raises CalledProcessError for a non-zero code
check_returncode_raises(returncode) == returncode # 0

\* lines 88-93: subprocess.run waits for the child, which may have deleted the
\* connection file (delete-this-file=1); check_returncode; the except clause
\* prints; main returns and the process exits with status 0
\* mutant: main has no except clause for the child's failure
caught_by_main_mut(exc) == FALSE

\* line 92: the except clause of main
caught_by_main(exc) == exc = "CalledProcessError"

viewer_exit ==
    /\ pc = "viewer_wait"
    /\ \E returncode \in ReturnCodes, deleted \in BOOLEAN :
        /\ viewer' = [viewer EXCEPT !.returncode = returncode]
        /\ disk' = IF deleted THEN without_file(disk, connection_file_name) ELSE disk
        /\ IF ~check_returncode_raises(returncode)
           THEN /\ pc' = "exited"
                /\ exit_status' = 0
                /\ UNCHANGED <<printed, raised>>
           ELSE IF caught_by_main("CalledProcessError")
           THEN /\ printed' = Append(printed, ViewerWarning)
                /\ pc' = "exited"
                /\ exit_status' = 0
                /\ UNCHANGED raised
           ELSE /\ Raise("CalledProcessError")
                /\ UNCHANGED printed
    /\ UNCHANGED <<arguments, umask, resources_response, probe, pve_port, pve_api_url,
                   ticket_response, pve_cookie, pve_header, vminfo, pve_spice, json_data,
                   conn_param, connection_file_name, sent>>

Next ==
    \/ determine_port
    \/ get_pve_cookies
    \/ get_node_info
    \/ get_spice_info
    \/ main_json_data
    \/ generate_rc_file_mktemp
    \/ generate_rc_file_unlink
    \/ generate_rc_file_write
    \/ viewer_start
    \/ viewer_exit

Spec == Init /\ [][Next]_vars

-----------------------------------------------------------------------------
(* get_node_info alone: any inventory, any query *)

\* every list of at most n elements of S
SeqsUpTo(S, n) == UNION {[1..k -> S] : k \in 0..n}

\* get_node_info is called with any vmname and vmid (None, '' or a string) on any
\* inventory of at most MaxInv items
InitLocator ==
    /\ arguments \in {Arguments(n, i, <<"h">>) :
                        n \in {None, <<>>, <<"a">>}, i \in {None, <<>>, <<"1">>}}
    /\ umask \in {{"gw", "ow"}}
    /\ resources_response \in {Response(200, "data", inv) : inv \in SeqsUpTo(Items, MaxInv)}
    /\ pc = "get_node_info"
    /\ pve_port = Port8006
    /\ pve_api_url = Https \o arguments.fqdn \o Colon \o Port8006 \o ApiPath
    /\ pve_cookie = [PVEAuthCookie |-> <<"T">>]
    /\ pve_header = [CSRFPreventionToken |-> <<"C">>]
    /\ json_data = EmptyDict
    /\ Fresh

NextLocator == get_node_info

LocatorSpec == InitLocator /\ [][NextLocator]_vars

-----------------------------------------------------------------------------
(* generate_rc_file alone: any field values *)

\* the characters of a field value: a letter, '=' and a line break
Alphabet == {"a", "=", NL}

FieldValues == SeqsUpTo(Alphabet, MaxLen)

\* the values of the runs of main
DefaultData == [k \in SpiceKeys |-> CHOOSE v \in SpiceValues(k) : v \in SpiceValues(k)]

\* generate_rc_file is called with any two of its seven arguments given any
\* values; the port is a str or an int
InitRc ==
    /\ arguments \in {Arguments(<<"a">>, None, <<"h">>)}
    /\ umask \in Umasks
    /\ resources_response \in {Response(200, "data", <<>>)}
    /\ pc = "generate_rc_file"
    /\ pve_port = Port8006
    /\ pve_api_url = Https \o arguments.fqdn \o Colon \o Port8006 \o ApiPath
    /\ pve_cookie = [PVEAuthCookie |-> <<"T">>]
    /\ pve_header = [CSRFPreventionToken |-> <<"C">>]
    /\ \E k1 \in SpiceKeys, k2 \in SpiceKeys, v1 \in FieldValues, v2 \in FieldValues,
          port \in {[int |-> 0], [int |-> 61000], [str |-> <<"6", "1">>]} :
        json_data = [k \in SpiceKeys |->
                        IF k = k1 THEN [str |-> v1]
                        ELSE IF k = k2 THEN [str |-> v2]
                        ELSE IF k = "tls-port" THEN port
                        ELSE DefaultData[k]]
    /\ Fresh

NextRc ==
    \/ generate_rc_file_mktemp
    \/ generate_rc_file_unlink
    \/ generate_rc_file_write

RcSpec == InitRc /\ [][NextRc]_vars

-----------------------------------------------------------------------------
(* Reading a connection file back *)

\* the lines of a text, without their line breaks
file_lines(content) ==
    LET parts == split(content, NL)
    IN  IF parts[Len(parts)] = <<>> THEN SubSeq(parts, 1, Len(parts) - 1) ELSE parts

\* a line as a key=value pair, cut at its first '='; a line without '=' has no value
key_value(line) ==
    LET key == Head(split(line, "="))
    IN  [key |-> key,
         value |-> IF Len(key) = Len(line)
                   THEN None
                   ELSE SubSeq(line, Len(key) + 2, Len(line))]

\* the pairs of the lines that follow the first line
pairs_of(content) ==
    LET lines == file_lines(content)
    IN  [i \in 1..(Len(lines) - 1) |-> key_value(lines[i + 1])]

Pair(key_eq, value) == [key |-> SubSeq(key_eq, 1, Len(key_eq) - 1), value |-> value]

\* the four fixed pairs
FixedPairs ==
    {key_value(TypeLine), key_value(FullscreenLine), key_value(ReleaseCursorLine),
     key_value(DeleteLine)}

\* the key of the connection file that carries a field of the response
FileKey(k) ==
    CASE k = "title" -> TitleKey
      [] k = "host" -> HostKey
      [] k = "ca" -> CaKey
      [] k = "tls-port" -> TlsPortKey
      [] k = "password" -> PasswordKey
      [] k = "proxy" -> ProxyKey
      [] k = "host-subject" -> HostSubjectKey

\* the text of a field value: a str as it is, the port in decimal when it is an int
Text(v) == IF "int" \in DOMAIN v THEN int_str(v.int) ELSE v.str

\* the seven pairs of the fields of `data`
FieldPairs(data) == {Pair(FileKey(k), Text(data[k])) : k \in SpiceKeys}

\* `content` starts with the section line and reads back as exactly the eleven pairs
ReadsBack(content, data) ==
    LET lines == file_lines(content)
        pairs == pairs_of(content)
    IN  /\ lines[1] = SectionLine
        /\ Len(pairs) = 11
        /\ {pairs[i] : i \in 1..Len(pairs)} = FieldPairs(data) \cup FixedPairs
        /\ Cardinality({pairs[i].key : i \in 1..Len(pairs)}) = 11

\* `path` is <home>/<name>.conf
InHomeWithSuffix(path) ==
    /\ Len(path) > Len(Home) + 1 + Len(ConfSuffix)
    /\ SubSeq(path, 1, Len(Home) + 1) = Home \o Slash
    /\ \A i \in (Len(Home) + 2)..Len(path) : path[i] # "/"
    /\ SubSeq(path, Len(path) - Len(ConfSuffix) + 1, Len(path)) = ConfSuffix

NoLineBreak(data) ==
    \A k \in SpiceKeys : \A i \in 1..Len(Text(data[k])) : Text(data[k])[i] # NL

\* generate_rc_file has returned
Written == pc = "run_viewer"

(* C5, as stated: for all seven input values, the file generate_rc_file wrote     *)
(* starts with the section line and reads back as exactly eleven pairs, the seven *)
(* keys with the seven input values and the four fixed pairs, no key repeated;    *)
(* the returned path ends in '.conf' and lies in the home directory.              *)
C5_RoundTripAnyValue ==
    Written =>
        /\ connection_file_name \in DOMAIN disk
        /\ ReadsBack(disk[connection_file_name].content, json_data)
        /\ InHomeWithSuffix(connection_file_name)

(* C5, amended: the same round trip, for input values that hold no line break.    *)
C5_RoundTripNoLineBreak ==
    (Written /\ NoLineBreak(json_data)) =>
        /\ connection_file_name \in DOMAIN disk
        /\ ReadsBack(disk[connection_file_name].content, json_data)
        /\ InHomeWithSuffix(connection_file_name)

C5_Witness ==
    /\ Written
    /\ NoLineBreak(json_data)
    /\ json_data["password"].str = <<"=", "a">>
    /\ "int" \in DOMAIN json_data["tls-port"]

-----------------------------------------------------------------------------
(* Properties of the runs of main *)

\* determine_port has been called
Probed == Len(sent) >= 1

(* C1: determine_port never raises: a probe that fails to connect gives '8006', a *)
(* probe that connects gives '443' whatever the HTTP status of the response.      *)
C1_DeterminePortTotal ==
    Probed => IF probe.connected THEN pve_port = Port443 ELSE pve_port = Port8006

\* get_node_info has been called and has returned or raised
Located == pc # "get_node_info" /\ (DOMAIN pve_cookie # {})

IsVm(item) == item.type \in {Lxc, Qemu}

\* the part of the id of an item after '<kind>/'
BareId(item) == SubSeq(item.id, Len(item.type) + 2, Len(item.id))

\* the places of the inventory that match the query
Matches(inv, vmname, vmid) ==
    {i \in 1..Len(inv) :
        IsVm(inv[i]) /\ (inv[i].name = vmname \/ BareId(inv[i]) = vmid)}

Last(S) == CHOOSE i \in S : \A j \in S : j <= i

NameOrIdSet == ~(arguments.vmname \in {None, <<>>} /\ arguments.vmid \in {None, <<>>})

(* C2: for a query with a name or an id set, get_node_info fails with the        *)
(* not-found error when no lxc/qemu entry matches by name or bare id, and        *)
(* otherwise returns name/type/bare id/node of the last matching entry; entries  *)
(* of another type never match.                                                  *)
C2_LastMatchWins ==
    (Located /\ NameOrIdSet /\ resources_response.body = "data") =>
        LET inv == resources_response.data
            m == Matches(inv, arguments.vmname, arguments.vmid)
        IN  IF m = {}
            THEN raised = "BaseException" /\ DOMAIN vminfo = {}
            ELSE /\ raised # "BaseException"
                 /\ DOMAIN vminfo = {"name", "type", "id", "node"}
                 /\ vminfo["name"] = inv[Last(m)].name
                 /\ vminfo["type"] = inv[Last(m)].type
                 /\ vminfo["id"] = BareId(inv[Last(m)])
                 /\ vminfo["node"] = inv[Last(m)].node

C2_Witness ==
    /\ Located
    /\ NameOrIdSet
    /\ Cardinality(Matches(resources_response.data, arguments.vmname, arguments.vmid)) >= 2
    /\ \E i \in 1..Len(resources_response.data) :
          /\ ~IsVm(resources_response.data[i])
          /\ resources_response.data[i].name = arguments.vmname

IsResourcesGet(req) == req.method = "GET" /\ req.url = pve_api_url \o ResourcesPath

(* C3: called with neither a name nor an id set, get_node_info fails with the    *)
(* validation error and has sent no request: the cluster/resources GET is not    *)
(* among the requests sent.                                                      *)
C3_ValidationBeforeNetwork ==
    (Located /\ ~NameOrIdSet) =>
        /\ raised = "ValueError"
        /\ pc = "exited"
        /\ Len(sent) = 2
        /\ \A i \in 1..Len(sent) : ~IsResourcesGet(sent[i])

C3_Witness == Located /\ ~NameOrIdSet /\ raised = "ValueError"

\* get_pve_cookies has been called and has returned or raised
Ticketed == ticket_response.body # "none"

\* the ticket response has a success status and both fields
CompleteTicket ==
    /\ ticket_response.status < 400
    /\ ticket_response.body = "data"
    /\ {"ticket", "CSRFPreventionToken"} \subseteq DOMAIN ticket_response.data

NothingWritten == DOMAIN disk = {} /\ conn_param = <<>> /\ ~viewer.started

\* get_spice_info has been called
Proxied == pve_spice.body # "none"

\* the display-proxy response has a success status and all seven fields
CompleteSpice ==
    /\ pve_spice.status < 400
    /\ pve_spice.body = "data"
    /\ SpiceKeys \subseteq DOMAIN pve_spice.data

(* C6: a fatal failure of a step ends the run at that step with a non-zero exit: *)
(* no later step runs, no later request is sent, no descriptor is written and    *)
(* the viewer is not launched.                                                   *)
C6_FatalFailureEndsRun ==
    /\ raised # "None" => /\ pc = "exited"
                          /\ exit_status # 0
                          /\ exit_status # -1
                          /\ ~viewer.started
                          /\ ~ENABLED Next
    /\ (Probed /\ probe.connected /\ probe.status >= 400) =>
            raised = "HTTPError" /\ Len(sent) = 1 /\ NothingWritten
    /\ (Ticketed /\ ~CompleteTicket) =>
            raised # "None" /\ Len(sent) = 2 /\ NothingWritten
    /\ (Located /\ resources_response.body = "data" /\ NameOrIdSet
          /\ Matches(resources_response.data, arguments.vmname, arguments.vmid) = {}) =>
            raised = "BaseException" /\ Len(sent) = 3 /\ NothingWritten
    /\ (Located /\ resources_response.body # "data" /\ NameOrIdSet) =>
            raised # "None" /\ Len(sent) = 3 /\ NothingWritten
    /\ (Proxied /\ pve_spice.status >= 400) =>
            raised = "ConnectionError" /\ Len(sent) = 4 /\ NothingWritten
    /\ (Proxied /\ ~CompleteSpice /\ pc # "json_data") =>
            raised # "None" /\ Len(sent) = 4 /\ NothingWritten

C6_Witness ==
    /\ Proxied
    /\ pve_spice.status = 500
    /\ pve_spice.body = "data"
    /\ SpiceKeys \subseteq DOMAIN pve_spice.data
    /\ pc = "exited"

(* C7: once the viewer is started, its outcome never fails the run: for every    *)
(* exit code main waits for the child, prints at most the one warning and exits  *)
(* with status zero.                                                             *)
C7_ViewerOutcomeNotFatal ==
    viewer.started =>
        /\ raised = "None"
        /\ pc = "viewer_wait" => exit_status = -1
        /\ pc = "exited" => exit_status = 0
        /\ pc \in {"viewer_wait", "exited"}
        /\ printed \in {<<>>, <<ViewerWarning>>}

C7_Witness ==
    /\ viewer.started
    /\ pc = "exited"
    /\ viewer.returncode = 255
    /\ printed = <<ViewerWarning>>

\* the descriptor holds the password
HoldsPassword(file) ==
    \E i \in 1..Len(conn_param) :
        /\ conn_param[i] = PasswordKey \o json_data["password"].str \o <<NL>>
        /\ \E j \in 1..Len(file.content) :
              /\ j + Len(conn_param[i]) - 1 <= Len(file.content)
              /\ SubSeq(file.content, j, j + Len(conn_param[i]) - 1) = conn_param[i]

(* C8: whenever the descriptor file holds the password it is accessible to its   *)
(* owner only, and from the moment the path is chosen until the content is       *)
(* written the path is never absent.                                             *)
C8_OwnerOnlyDescriptor ==
    /\ \A path \in DOMAIN disk :
          HoldsPassword(disk[path]) => disk[path].mode \subseteq {"ur", "uw"}
    /\ pc \in {"tempfile_close", "open_write"} => connection_file_name \in DOMAIN disk

(* C8, its first half alone: the password-bearing file is owner-only.            *)
C8_OwnerOnlyMode ==
    \A path \in DOMAIN disk :
        HoldsPassword(disk[path]) => disk[path].mode \subseteq {"ur", "uw"}

EndsWith(t, suffix) ==
    Len(t) >= Len(suffix) /\ SubSeq(t, Len(t) - Len(suffix) + 1, Len(t)) = suffix

\* generate_rc_file has been called
Generating == pc \in {"tempfile_close", "open_write", "run_viewer", "viewer_wait"}
                \/ viewer.started \/ conn_param # <<>>

(* C9: the display-proxy POST follows a lookup that returned node, type and id,  *)
(* and its URL is built from these three; generate_rc_file is called only after  *)
(* a successful response with all seven fields; when the viewer is started the   *)
(* descriptor at the path given to it exists and holds its complete content.     *)
C9_Ordering ==
    /\ \A i \in 1..Len(sent) :
          (sent[i].method = "POST" /\ EndsWith(sent[i].url, SpiceProxyPath)) =>
              /\ DOMAIN vminfo = {"name", "type", "id", "node"}
              /\ vminfo["node"] # <<>> /\ vminfo["type"] # <<>> /\ vminfo["id"] # <<>>
              /\ sent[i].url = pve_api_url \o NodesPath \o vminfo["node"] \o Slash
                                 \o vminfo["type"] \o Slash \o vminfo["id"]
                                 \o SpiceProxyPath
              /\ \E j \in 1..(i - 1) : IsResourcesGet(sent[j])
    /\ Generating => /\ Proxied
                     /\ CompleteSpice
                     /\ \A k \in SpiceKeys : json_data[k] = pve_spice.data[k]
    /\ pc = "viewer_wait" =>
          /\ viewer.argv = <<RemoteViewer, connection_file_name>>
          /\ connection_file_name \in DOMAIN disk
          /\ Len(conn_param) = 12
          /\ disk[connection_file_name].content = concat(conn_param)

C9_Witness == pc = "viewer_wait" /\ Len(sent) = 4

(* C10: a successful display-proxy response that lacks one of the seven fields   *)
(* fails the run: no descriptor file, no value in place of the missing one, no   *)
(* viewer; with all seven present each line of the descriptor carries the value  *)
(* of the response.                                                              *)
C10_MissingFieldFails ==
    /\ (Proxied /\ pve_spice.status < 400 /\ pve_spice.body = "data"
          /\ ~(SpiceKeys \subseteq DOMAIN pve_spice.data)) =>
            /\ NothingWritten
            /\ DOMAIN json_data = {}
            /\ pc \in {"json_data", "exited"}
            /\ pc = "exited" => raised = "KeyError" /\ exit_status = 1
    /\ (Proxied /\ pc \in {"run_viewer", "viewer_wait"}) =>
            /\ CompleteSpice
            /\ connection_file_name \in DOMAIN disk
            /\ LET pairs == pairs_of(disk[connection_file_name].content)
               IN  FieldPairs(pve_spice.data) \subseteq {pairs[i] : i \in 1..Len(pairs)}

C10_Witness ==
    /\ Proxied
    /\ pve_spice.status = 200
    /\ pve_spice.body = "data"
    /\ DOMAIN pve_spice.data = SpiceKeys \ {"password"}
    /\ pc = "exited"

====
